---- MODULE Spec2Model ----
(***************************************************************************)
(* Chat client (src/client/src/pages/Chat.jsx and its two sibling versions *)
(* in src/unnamed/part_001 and src/unnamed/part_002) together with the     *)
(* room/registry/delivery server it talks to over socket.io.               *)
(*                                                                         *)
(* The server's socket handler (./socket/index.js, imported by the server  *)
(* entry point part_000:25) is not among the sources; the Server*          *)
(* definitions follow sections 4.1-4.3 of the specification.               *)
(***************************************************************************)
EXTENDS Integers, Sequences, FiniteSets, TLC

\* ------------------------------------------------------------------ bounds
MaxSends == 2
MaxSwitches == 1
MaxEdits == 2
\* the runs that compare the three versions of the component
VarSends == 1
VarSwitches == 1
VarEdits == 1
\* the runs with two connected users
RoomSends == 1
RoomSwitches == 1
RoomEdits == 1
\* the runs about older pages
PageSends == 1
PageSwitches == 1
PageEdits == 1
PageLoads == 2
PageTicks == 1
\* the runs about presence, disconnects and logouts
RetryRuns == 2

TypSwitches == 2
TypEdits == 2

OrderSends == 2
OrderEdits == 2
OrderLoads == 1
OrderTicks == 1

PresSwitches == 2
PresEdits == 1
PresDrops == 2

\* ------------------------------------------------------- program constants
maxSize == 5242880
retries == 3
olderLimit == 20

Users == {"alice", "bob"}
\* the users who operate their user interface; the others stay connected
\* and only receive
Actors == {"alice"}
\* two of the four rooms of the room list
Rooms == {"general", "random"}
InitialRoom == "general"

VChat == "Chat.jsx"
VPart1 == "part_001"
VPart2 == "part_002"
Variants == {VChat, VPart1, VPart2}

NoRoom == "-"
NoFile == [size |-> 0, type |-> "-"]
NoUrl == "-"
NoError == "-"
NoId == <<"none", 0>>

\* contents of the text input: sequences of characters
Texts == {<<>>, <<" ">>, <<"h">>, <<" ", "h">>}
Files == {NoFile,
          [size |-> maxSize, type |-> "image/png"],
          [size |-> maxSize + 1, type |-> "image/png"],
          [size |-> 1, type |-> "text/html"]}

VARIABLES
    variant,      \* which version of the Chat component is deployed
    mounted,      \* [user -> BOOLEAN] the component is rendered
    message,      \* useState("")      text input
    file,         \* useState(null)    selected attachment
    currentRoom,  \* useState("general")
    messages,     \* useState([])      the timeline
    loading,      \* useState(false)
    error,        \* useState(null)
    hasMoreOlder, \* useState(true)
    typingUsers,  \* useState(new Set())
    unreadCount,  \* useState({})
    typingTimers, \* [user -> Seq(room)] pending typing-expiry timers
    typingTimeoutRef, \* typingTimeoutRef.current: index of the timer it
                  \* holds in typingTimers, 0 when it holds none or a dead one
    users,        \* useState([])      the presence list last pushed
    connectionStatus, \* useState("connected")
    loadingOlder, \* useState(false)
    paging,       \* [user -> Seq(request)] older-page requests in flight
    calls,        \* [user -> set of sendMessage calls that are suspended]
    fetching,     \* [user -> Seq(room)] fetchMessages requests in flight
    nextLocal,    \* number of localIds generated so far
    up,           \* [user -> Seq(event)] events emitted, not yet handled
    down,         \* [user -> Seq(event)] events/acks sent to the client
    registered,   \* server registry: connections bound to a user
    connRoom,     \* server registry: connection -> current room
    history,      \* persisted messages, in append order
    pendingAck,   \* persisted, success acknowledgement not yet returned
    pendingCast,  \* persisted, not yet fanned out
    members,      \* Room Broadcaster: [room -> Seq(user)] in join order
    now,          \* the clock that stamps messages and cursors
    emitCount,    \* [call number -> number of send_message emits]
    uploadCount,  \* [user -> number of upload requests made]
    lastSubmit,   \* [user -> outcome of the latest form submission]
    callLog,      \* [call number -> how far that sendMessage call got]
    sendsLeft,    \* accepted submissions the run may still make
    switchesLeft, \* room switches the run may still make
    editsLeft,    \* input changes the run may still make
    pageLog,      \* [user -> record of the latest older-page request]
    loadsLeft,    \* older-page requests the run may still make
    ticksLeft,    \* clock ticks the run may still make
    dropsLeft,    \* disconnects and logouts the run may still make
    retry,        \* the apiCallWithRetry invocation that is under way
    retryRunsLeft \* apiCallWithRetry invocations the run may still make

clientVars == <<mounted, message, file, currentRoom, messages, loading, error,
                hasMoreOlder, typingUsers, unreadCount, typingTimers,
                typingTimeoutRef, calls, fetching, nextLocal>>
netVars == <<up, down>>
serverVars == <<registered, connRoom, members, history, pendingAck,
                pendingCast>>
ghostVars == <<emitCount, uploadCount, lastSubmit, callLog, sendsLeft,
               switchesLeft,
               editsLeft>>
timerVars == <<typingTimers, typingTimeoutRef>>
presenceVars == <<users, connectionStatus, dropsLeft>>
pageVars == <<loadingOlder, paging, now, pageLog, loadsLeft, ticksLeft>>
retryVars == <<retry, retryRunsLeft>>
vars == <<variant, clientVars, netVars, serverVars, ghostVars, presenceVars,
          pageVars, retryVars>>

\* ---------------------------------------------------------------- helpers
IsSpace(c) == c = " "

RECURSIVE TrimStart(_)
TrimStart(s) ==
    IF s = <<>> THEN <<>>
    ELSE IF IsSpace(Head(s)) THEN TrimStart(Tail(s)) ELSE s

RECURSIVE TrimEnd(_)
TrimEnd(s) ==
    IF s = <<>> THEN <<>>
    ELSE IF IsSpace(s[Len(s)]) THEN TrimEnd(SubSeq(s, 1, Len(s) - 1)) ELSE s

\* String.prototype.trim
Trim(s) == TrimEnd(TrimStart(s))

\* JavaScript truthiness of a string
Truthy(s) == s # <<>>

RemoveAt(q, i) == SubSeq(q, 1, i - 1) \o SubSeq(q, i + 1, Len(q))

LocalId(n) == <<"local", n>>
ServerId(k) == <<"srv", k>>

\* ------------------------------------------------- client: pure functions
allowedTypes ==
    {"image/jpeg", "image/png", "image/gif", "application/pdf", "image/webp"}

allowedTypesPart2 ==
    {"image/jpeg", "image/png", "image/gif", "application/pdf"}

\* validateFile: "ok", or the message of the Error it throws
validateFile(f) ==
    IF f.size > maxSize THEN "File size too large"
    ELSE IF f.type \notin allowedTypes THEN "Invalid file type"
    ELSE "ok"

validateFilePart2(f) ==
    IF f.size > maxSize THEN "File size too large (max 5MB)"
    ELSE IF f.type \notin allowedTypesPart2
         THEN "Invalid file type. Allowed: JPEG, PNG, GIF, PDF"
    ELSE "ok"

\* a validation that accepts every file
ValidateNothing(v, f) == "ok"

ValidateFor(v, f) == IF v = VPart2 THEN validateFilePart2(f) ELSE validateFile(f)

\* Errors are classified by how they were raised: "response" (the server
\* answered with status 500), "request" (no answer), "plain" (new Error(..)).
ErrKinds == {"response", "request"}

handleApiError(kind) ==
    IF kind = "response" THEN "Error: 500"
    ELSE IF kind = "request" THEN "Network error: Unable to reach the server."
    ELSE "An unexpected error occurred."

handleApiErrorPart1(kind) ==
    IF kind = "request"
    THEN "Unable to connect to server. Please check your internet connection."
    ELSE IF kind = "response" THEN "Server error. Please try again later."
    ELSE "An unexpected error occurred."

\* the message property of an axios error
AxiosMessage(kind) ==
    IF kind = "response" THEN "Request failed with status code 500"
    ELSE "Network Error"

\* the message shown by the catch block of sendMessage
SendErrorText(v, kind, text) ==
    IF v = VChat THEN handleApiError(kind)
    ELSE IF v = VPart1 THEN handleApiErrorPart1(kind)
    ELSE text

\* the guard testing the raw input instead of the trimmed one
SendGuardNoTrim(msg, f, isLoading) ==
    (~Truthy(msg) /\ f = NoFile) \/ isLoading

\* the guard testing the loading flag only
SendGuardOnlyLoading(msg, f, isLoading) == isLoading

\* the guard at the top of sendMessage: TRUE when the call returns at once
SendGuardReturns(msg, f, isLoading) ==
    (~Truthy(Trim(msg)) /\ f = NoFile) \/ isLoading

pushLocalMessage(prev, msg) == Append(prev, msg)

\* the updater without its id test
MarkDeliveredAll(prev, localId, serverId) ==
    [i \in 1..Len(prev) |->
        [prev[i] EXCEPT !.id = IF serverId # NoId THEN serverId ELSE @,
                        !.status = "delivered"]]

\* setMessages(prev => prev.map(m => m.id === localId ? {...delivered} : m))
MarkDelivered(prev, localId, serverId) ==
    [i \in 1..Len(prev) |->
        IF prev[i].id = localId
        THEN [prev[i] EXCEPT !.id = IF serverId # NoId THEN serverId ELSE @,
                             !.status = "delivered"]
        ELSE prev[i]]

\* the updater without its id test
MarkFailedAll(prev, localId) ==
    [i \in 1..Len(prev) |-> [prev[i] EXCEPT !.status = "failed"]]

\* setMessages(prev => prev.map(m => m.id === localId ? {...failed} : m))
MarkFailed(prev, localId) ==
    [i \in 1..Len(prev) |->
        IF prev[i].id = localId THEN [prev[i] EXCEPT !.status = "failed"]
        ELSE prev[i]]

\* part_001 declares localId inside the try block and reads it in the catch
\* block, where it is not in scope: the updater throws a ReferenceError as
\* soon as it is applied to a non-empty timeline, which tears the component
\* down.  TRUE when the catch block's updater throws.
CatchThrowsPart1(prev) == prev # <<>>

\* the acknowledgement callback of part_002 (no timeout, no race)
AckCallbackPart2(prev, localId, success, serverId) ==
    IF success THEN MarkDelivered(prev, localId, serverId)
    ELSE MarkFailed(prev, localId)

\* the callback resolving on every acknowledgement
AckResolvesAlways(ack) == TRUE

\* the resolve/reject decision of the acknowledgement callback
AckResolves(ack) == ack.success

\* apiCallWithRetry's attempt limit; part_002 posts the upload directly
RetriesFor(v) == IF v = VPart2 THEN 1 ELSE retries

\* ----------------------------------------------------------------- events
EvUserConnected(u) == [type |-> "userConnected", username |-> u]
\* join_room naming the room of the first render
EvJoinRoomStale(r, u) ==
    [type |-> "join_room", room |-> InitialRoom, username |-> u]

EvJoinRoom(r, u) == [type |-> "join_room", room |-> r, username |-> u]
EvTyping(r, u) == [type |-> "user_typing", room |-> r, username |-> u]
EvStopTyping(r, u) == [type |-> "user_stop_typing", room |-> r, username |-> u]
EvSendMessage(m) == [type |-> "send_message", msg |-> m]
EvReceiveMessage(m) == [type |-> "receive_message", msg |-> m]
EvUserList(list) == [type |-> "userList", list |-> list]
EvAck(n, ok, sid) == [type |-> "ack", cid |-> n, success |-> ok, serverId |-> sid]

\* the events the typing effect emits when it runs with input text t in room r
TypingEffectEvents(t, r, u) ==
    IF Truthy(Trim(t)) THEN <<EvTyping(r, u)>> ELSE <<EvStopTyping(r, u)>>

\* clearTimeout that cancels nothing
ClearTimeoutNothing(ts, ref) == ts

\* if (typingTimeoutRef.current) clearTimeout(typingTimeoutRef.current):
\* the pending timers that remain
ClearTimeout(ts, ref) == IF ref \in 1..Len(ts) THEN RemoveAt(ts, ref) ELSE ts

\* the timers pending after the typing effect ran with input text t in
\* room r: the cleanup of its previous run and its first line clear the
\* timer the ref holds, a non-empty input starts a new 1000 ms timer
TypingEffectTimers(ts, ref, t, r) ==
    IF Truthy(Trim(t)) THEN Append(ClearTimeout(ts, ref), r)
    ELSE ClearTimeout(ts, ref)

\* what typingTimeoutRef.current holds after the typing effect ran
TypingEffectRef(ts, ref, t, r) ==
    IF Truthy(Trim(t)) THEN Len(TypingEffectTimers(ts, ref, t, r)) ELSE 0

\* what typingTimeoutRef.current holds after timer i has fired or was
\* cancelled
RefAfterRemoval(ref, i) ==
    IF ref = i THEN 0 ELSE IF ref > i THEN ref - 1 ELSE ref

\* the events the socket setup effect emits when it runs
SocketEffectEvents(r, u) == <<EvUserConnected(u), EvJoinRoom(r, u)>>

\* ------------------------------------------------------------------- Init
\* The users in online have logged in: their component has mounted and the
\* server has handled the userConnected, join_room and user_stop_typing
\* events that the mount effects emit.  The others have no connection.
InitFor(vs, online, nSends, nSwitches, nEdits) ==
    /\ variant \in vs
    /\ mounted = [u \in Users |-> u \in online]
    /\ message = [u \in Users |-> <<>>]
    /\ file = [u \in Users |-> NoFile]
    /\ currentRoom = [u \in Users |-> InitialRoom]
    /\ messages = [u \in Users |-> <<>>]
    /\ loading = [u \in Users |-> u \in online /\ variant # VChat]
    /\ error = [u \in Users |-> NoError]
    /\ hasMoreOlder = [u \in Users |-> TRUE]
    /\ typingUsers = [u \in Users |-> {}]
    /\ unreadCount = [u \in Users |-> [r \in Rooms |-> 0]]
    /\ typingTimers = [u \in Users |-> <<>>]
    /\ typingTimeoutRef = [u \in Users |-> 0]
    /\ calls = [u \in Users |-> {}]
    /\ fetching = [u \in Users |->
                     IF u \in online /\ variant # VChat
                     THEN <<InitialRoom>> ELSE <<>>]
    /\ nextLocal = 0
    /\ up = [u \in Users |-> <<>>]
    /\ down = [u \in Users |-> <<>>]
    /\ registered = [u \in Users |-> u \in online]
    /\ connRoom = [u \in Users |-> IF u \in online THEN InitialRoom ELSE NoRoom]
    /\ pendingAck = {}
    /\ pendingCast = {}
    /\ emitCount = [n \in 1..nSends |-> 0]
    /\ uploadCount = [u \in Users |-> 0]
    /\ lastSubmit = [u \in Users |-> "none"]
    /\ callLog = [n \in 1..nSends |-> "none"]
    /\ sendsLeft = nSends
    /\ switchesLeft = nSwitches
    /\ editsLeft = nEdits

\* a history persisted in earlier sessions: n messages of bob, the first
\* three in random and the others in general, stamped one per millisecond
\* or two per millisecond (messages 2k and 2k+1 share a timestamp)
SeedMessage(k, dup) ==
    [id |-> ServerId(k), cid |-> 0, local |-> FALSE,
     room |-> IF k <= 3 THEN "random" ELSE "general", sender |-> "bob",
     text |-> <<"h">>, fileUrl |-> NoUrl,
     timestamp |-> IF dup THEN (k \div 2) + 1 ELSE k, status |-> "none"]

Seed(n, dup) == [k \in 1..n |-> SeedMessage(k, dup)]

SeedSizes == {0, olderLimit + 4}

Seeds == {Seed(n, dup) : n \in SeedSizes, dup \in BOOLEAN}

\* the users in join order
UserOrder == <<"alice", "bob">>

\* presenceSnapshot(room): the member usernames in join order
presenceSnapshot(mem, r) == mem[r]

NoPage == [room |-> NoRoom, before |-> 0, limit |-> 0, outcome |-> "none",
           count |-> 0]

\* The rest of the state: the rooms hold the history seed (persisted in
\* earlier sessions), the presence list of the initial room has been pushed
\* to its members, and the clock is past every persisted timestamp.
\* no apiCallWithRetry invocation has been made
NoRetry == [phase |-> "idle", i |-> 0, log |-> <<>>, lastError |-> "-",
            value |-> "-"]

InitMore(online, seeds, nLoads, nTicks, nDrops, nRetries) ==
    /\ retry = NoRetry
    /\ retryRunsLeft = nRetries
    /\ history \in seeds
    /\ now = Len(history) + 1
    /\ members = [r \in Rooms |->
                    IF r = InitialRoom
                    THEN SelectSeq(UserOrder, LAMBDA v : v \in online)
                    ELSE <<>>]
    /\ users = [u \in Users |->
                  IF u \in online
                  THEN SelectSeq(UserOrder, LAMBDA v : v \in online)
                  ELSE <<>>]
    /\ connectionStatus = [u \in Users |-> "connected"]
    /\ loadingOlder = [u \in Users |-> FALSE]
    /\ paging = [u \in Users |-> <<>>]
    /\ pageLog = [u \in Users |-> NoPage]
    /\ loadsLeft = nLoads
    /\ ticksLeft = nTicks
    /\ dropsLeft = nDrops

Init ==
    /\ InitFor({VChat}, Actors, MaxSends, MaxSwitches, MaxEdits)
    /\ InitMore(Actors, {<<>>}, 0, 0, 0, 0)

InitRoom ==
    /\ InitFor({VChat}, Users, RoomSends, RoomSwitches, RoomEdits)
    /\ InitMore(Users, {<<>>}, 0, 0, 0, 0)

InitPresence ==
    /\ InitFor({VChat}, Users, 0, PresSwitches, PresEdits)
    /\ InitMore(Users, {<<>>}, 0, 0, PresDrops, 0)

InitPaging ==
    /\ InitFor({VChat, VPart1}, Actors, PageSends, PageSwitches, PageEdits)
    /\ InitMore(Actors, Seeds, PageLoads, PageTicks, 0, 0)

InitOrder ==
    /\ InitFor({VChat}, Actors, OrderSends, 0, OrderEdits)
    /\ InitMore(Actors, Seeds, OrderLoads, OrderTicks, 0, 0)

InitRetry ==
    /\ InitFor({VChat, VPart1}, Actors, 0, 0, 0)
    /\ InitMore(Actors, {<<>>}, 0, 0, 0, RetryRuns)

InitTyping ==
    /\ InitFor({VChat}, Users, 0, TypSwitches, TypEdits)
    /\ InitMore(Users, {<<>>}, 0, 0, 0, 0)

InitVariants ==
    /\ InitFor(Variants, Actors, VarSends, VarSwitches, VarEdits)
    /\ InitMore(Actors, {<<>>}, 0, 0, 0, 0)

\* --------------------------------------------------------- client actions
Enqueue(q, u, evs) == [q EXCEPT ![u] = @ \o evs]

\* the text input is disabled while loading in part_001 and part_002
InputEnabled(u) ==
    \/ variant = VChat
    \/ ~loading[u] /\ (variant = VPart1 => connectionStatus[u] = "connected")

\* onChange of the text input, followed by the typing effect
SetMessage(u, t) ==
    /\ mounted[u] /\ InputEnabled(u)
    /\ t # message[u]
    /\ editsLeft > 0
    /\ editsLeft' = editsLeft - 1
    /\ message' = [message EXCEPT ![u] = t]
    /\ up' = Enqueue(up, u, TypingEffectEvents(t, currentRoom[u], u))
    /\ typingTimers' = [typingTimers EXCEPT
                           ![u] = TypingEffectTimers(@, typingTimeoutRef[u],
                                                     t, currentRoom[u])]
    /\ typingTimeoutRef' = [typingTimeoutRef EXCEPT
                               ![u] = TypingEffectRef(typingTimers[u], @,
                                                      t, currentRoom[u])]
    /\ UNCHANGED <<variant, retryVars, presenceVars, pageVars, mounted, file, currentRoom, messages, loading,
                   error, hasMoreOlder, typingUsers, unreadCount, calls,
                   fetching, nextLocal, down, serverVars, emitCount,
                   uploadCount, lastSubmit, callLog, sendsLeft, switchesLeft>>

\* FileUpload's onChange: onFileSelect(e.target.files[0])
SetFile(u, f) ==
    /\ mounted[u]
    /\ f # NoFile /\ f # file[u]
    /\ editsLeft > 0
    /\ editsLeft' = editsLeft - 1
    /\ file' = [file EXCEPT ![u] = f]
    /\ UNCHANGED <<variant, retryVars, presenceVars, pageVars, mounted, message, currentRoom, messages, loading,
                   error, hasMoreOlder, typingUsers, unreadCount, typingTimers, typingTimeoutRef,
                   calls, fetching, nextLocal, netVars, serverVars, emitCount,
                   uploadCount, lastSubmit, callLog, sendsLeft, switchesLeft>>

\* a timer callback that emits nothing
TypingExpireSilent(u, i) ==
    /\ i \in 1..Len(typingTimers[u])
    /\ typingTimers' = [typingTimers EXCEPT ![u] = RemoveAt(@, i)]
    /\ typingTimeoutRef' = [typingTimeoutRef EXCEPT
                               ![u] = RefAfterRemoval(@, i)]
    /\ UNCHANGED <<variant, retryVars, presenceVars, pageVars, mounted, message, file,
                   currentRoom, messages, loading, error, hasMoreOlder,
                   typingUsers, unreadCount, calls, fetching, nextLocal,
                   netVars, serverVars, ghostVars>>

\* the 1000 ms timer of the typing effect fires
TypingExpire(u, i) ==
    /\ i \in 1..Len(typingTimers[u])
    /\ up' = Enqueue(up, u, <<EvStopTyping(typingTimers[u][i], u)>>)
    /\ typingTimers' = [typingTimers EXCEPT ![u] = RemoveAt(@, i)]
    /\ typingTimeoutRef' = [typingTimeoutRef EXCEPT
                               ![u] = RefAfterRemoval(@, i)]
    /\ UNCHANGED <<variant, retryVars, presenceVars, pageVars, mounted, message, file, currentRoom, messages,
                   loading, error, hasMoreOlder, typingUsers, unreadCount,
                   calls, fetching, nextLocal, down, serverVars, ghostVars>>

\* TRUE when the catch block of sendMessage tears the component down
Crashes(u) == variant = VPart1 /\ CatchThrowsPart1(messages[u])

\* catch and finally of sendMessage, for the call with localId number n;
\* a component that is torn down runs the cleanup of its typing effect
SendCatch(u, n, kind, text) ==
    /\ error' = [error EXCEPT ![u] = SendErrorText(variant, kind, text)]
    /\ loading' = [loading EXCEPT ![u] = FALSE]
    /\ messages' = [messages EXCEPT
                       ![u] = IF variant = VChat
                              THEN MarkFailed(@, LocalId(n)) ELSE @]
    /\ mounted' = [mounted EXCEPT ![u] = IF Crashes(u) THEN FALSE ELSE @]
    /\ typingTimers' = [typingTimers EXCEPT
                           ![u] = IF Crashes(u)
                                  THEN ClearTimeout(@, typingTimeoutRef[u])
                                  ELSE @]
    /\ typingTimeoutRef' = [typingTimeoutRef EXCEPT
                               ![u] = IF Crashes(u) THEN 0 ELSE @]
    /\ calls' = [calls EXCEPT
                    ![u] = IF Crashes(u) THEN {} ELSE {c \in @ : c.n # n}]

\* the number of send_message events in a list of emitted events
CountSends(evs) ==
    Cardinality({i \in 1..Len(evs) : evs[i].type = "send_message"})

\* the submission emitted twice
SendEventsTwice(r, u, msgData) ==
    <<EvStopTyping(r, u), EvSendMessage(msgData), EvSendMessage(msgData)>>

\* the submission emitted before the stop-typing event
SendEventsSendFirst(r, u, msgData) ==
    <<EvSendMessage(msgData), EvStopTyping(r, u)>>

\* lines 231-234 of sendMessage: what a submission emits
SendEvents(r, u, msgData) ==
    <<EvStopTyping(r, u), EvSendMessage(msgData)>>

\* lines 227-236 of sendMessage: optimistic append, stop typing, emit
PushAndEmit(u, c, fileUrl) ==
    LET msgData == [id |-> LocalId(c.n), cid |-> c.n, local |-> TRUE,
                    room |-> c.room, sender |-> u, text |-> c.text,
                    fileUrl |-> fileUrl, timestamp |-> now,
                    status |-> "sending"]
    IN  /\ messages' = [messages EXCEPT ![u] = pushLocalMessage(@, msgData)]
        /\ message' = [message EXCEPT ![u] = <<>>]
        /\ typingTimers' = [typingTimers EXCEPT
                               ![u] = ClearTimeout(@, typingTimeoutRef[u])]
        /\ typingTimeoutRef' = [typingTimeoutRef EXCEPT ![u] = 0]
        /\ up' = Enqueue(up, u,
                     SendEvents(c.room, u, msgData)
                     \o (IF message[u] # <<>>
                         THEN TypingEffectEvents(<<>>, currentRoom[u], u)
                         ELSE <<>>))
        /\ emitCount' = [emitCount EXCEPT
                            ![c.n] = @ + CountSends(SendEvents(c.room, u,
                                                               msgData))]
        /\ callLog' = [callLog EXCEPT ![c.n] = "emitted"]
        /\ calls' = [calls EXCEPT
                        ![u] = (@ \ {c}) \cup {[c EXCEPT !.stage = "await"]}]

NewCall(u) ==
    [n |-> nextLocal + 1, room |-> currentRoom[u], text |-> Trim(message[u]),
     file |-> file[u], stage |-> "upload", attempt |-> 1]

\* the submit button is disabled while loading and, in part_001 and
\* part_002, while there is neither text nor a file, and in part_001 while
\* the socket is not connected; a form whose submit button is disabled is
\* not submitted
SubmitEnabled(u) ==
    /\ ~loading[u]
    /\ variant = VChat \/ Truthy(Trim(message[u])) \/ file[u] # NoFile
    /\ variant = VPart1 => connectionStatus[u] = "connected"

\* onSubmit of the form: sendMessage up to its first await
Submit(u) ==
    /\ mounted[u] /\ SubmitEnabled(u)
    /\ sendsLeft > 0
    /\ IF SendGuardReturns(message[u], file[u], loading[u])
       THEN /\ lastSubmit' = [lastSubmit EXCEPT ![u] = "ignored"]
            /\ UNCHANGED <<variant, retryVars, presenceVars, pageVars, clientVars, netVars, serverVars,
                           emitCount, uploadCount, callLog, sendsLeft,
                           switchesLeft, editsLeft>>
       ELSE /\ nextLocal' = nextLocal + 1
            /\ sendsLeft' = sendsLeft - 1
            /\ IF file[u] # NoFile
               THEN IF ValidateFor(variant, file[u]) # "ok"
                    THEN /\ SendCatch(u, nextLocal + 1, "plain",
                                      ValidateFor(variant, file[u]))
                         /\ lastSubmit' = [lastSubmit EXCEPT ![u] = "invalid"]
                         /\ callLog' = [callLog EXCEPT
                                          ![nextLocal + 1] = "rejected"]
                         /\ UNCHANGED <<message, file, netVars,
                                        emitCount, uploadCount>>
                    ELSE /\ calls' = [calls EXCEPT ![u] = @ \cup {NewCall(u)}]
                         /\ loading' = [loading EXCEPT ![u] = TRUE]
                         /\ error' = [error EXCEPT ![u] = NoError]
                         /\ uploadCount' = [uploadCount EXCEPT ![u] = @ + 1]
                         /\ lastSubmit' = [lastSubmit EXCEPT ![u] = "accepted"]
                         /\ callLog' = [callLog EXCEPT
                                          ![nextLocal + 1] = "uploading"]
                         /\ UNCHANGED <<mounted, message, file, messages,
                                        typingTimers, typingTimeoutRef, netVars, emitCount>>
               ELSE /\ PushAndEmit(u, NewCall(u), NoUrl)
                    /\ loading' = [loading EXCEPT ![u] = (variant # VPart2)]
                    /\ error' = [error EXCEPT ![u] = NoError]
                    /\ lastSubmit' = [lastSubmit EXCEPT ![u] = "accepted"]
                    /\ UNCHANGED <<mounted, file, down, uploadCount>>
            /\ UNCHANGED <<variant, retryVars, presenceVars, pageVars, currentRoom, hasMoreOlder, typingUsers,
                           unreadCount, fetching, serverVars, switchesLeft,
                           editsLeft>>

\* the upload request of a suspended call succeeds
UploadOk(u, c) ==
    /\ mounted[u]
    /\ c \in calls[u] /\ c.stage = "upload"
    /\ PushAndEmit(u, c, "url")
    /\ file' = [file EXCEPT ![u] = NoFile]
    /\ loading' = [loading EXCEPT ![u] = IF variant = VPart2 THEN FALSE ELSE @]
    /\ UNCHANGED <<variant, retryVars, presenceVars, pageVars, mounted, error, currentRoom, hasMoreOlder, typingUsers,
                   unreadCount, fetching, nextLocal, down, serverVars,
                   uploadCount, lastSubmit, sendsLeft, switchesLeft, editsLeft>>

\* the upload request fails: apiCallWithRetry tries again or gives up
UploadFail(u, c, kind) ==
    /\ mounted[u]
    /\ c \in calls[u] /\ c.stage = "upload"
    /\ IF c.attempt < RetriesFor(variant)
       THEN /\ calls' = [calls EXCEPT
                          ![u] = (@ \ {c})
                                 \cup {[c EXCEPT !.attempt = @ + 1]}]
            /\ uploadCount' = [uploadCount EXCEPT ![u] = @ + 1]
            /\ UNCHANGED <<timerVars, mounted, messages, loading, error, callLog>>
       ELSE /\ SendCatch(u, c.n, kind, AxiosMessage(kind))
            /\ callLog' = [callLog EXCEPT ![c.n] = "uploadFailed"]
            /\ UNCHANGED uploadCount
    /\ UNCHANGED <<variant, retryVars, presenceVars, pageVars, message, file, currentRoom, hasMoreOlder,
                   typingUsers, unreadCount, fetching, nextLocal,
                   netVars, serverVars, emitCount, lastSubmit, sendsLeft,
                   switchesLeft, editsLeft>>

\* the 10000 ms timer raced against the acknowledgement fires first
SendTimeout(u, c) ==
    /\ mounted[u]
    /\ variant # VPart2
    /\ c \in calls[u] /\ c.stage = "await"
    /\ SendCatch(u, c.n, "plain", "Send timeout")
    /\ UNCHANGED <<variant, retryVars, presenceVars, pageVars, message, file, currentRoom, hasMoreOlder,
                   typingUsers, unreadCount, fetching, nextLocal,
                   netVars, serverVars, ghostVars>>

\* the suspended call whose acknowledgement callback has number n
AwaitingCalls(u, n) == {c \in calls[u] : c.n = n /\ c.stage = "await"}

\* the handler without its room test
onReceiveMessageAnyRoom(u, msg) ==
    /\ messages' = [messages EXCEPT ![u] = Append(@, msg)]
    /\ UNCHANGED unreadCount

onReceiveMessage(u, msg) ==
    IF msg.room # currentRoom[u]
    THEN /\ unreadCount' = [unreadCount EXCEPT ![u][msg.room] = @ + 1]
         /\ UNCHANGED messages
    ELSE /\ messages' = [messages EXCEPT ![u] = Append(@, msg)]
         /\ UNCHANGED unreadCount

onUserTyping(u, data) ==
    typingUsers' = [typingUsers EXCEPT
                      ![u] = IF data.username # u /\ data.room = currentRoom[u]
                             THEN @ \cup {data.username} ELSE @]

onUserStopTyping(u, data) ==
    typingUsers' = [typingUsers EXCEPT ![u] = @ \ {data.username}]

onUserList(u, list) == users' = [users EXCEPT ![u] = list]

\* the acknowledgement callback of send_message runs
onAck(u, ack) ==
    IF AwaitingCalls(u, ack.cid) = {}
    THEN UNCHANGED <<timerVars, mounted, messages, loading, error, calls>>
    ELSE IF variant = VPart2
    THEN /\ messages' = [messages EXCEPT
                           ![u] = AckCallbackPart2(@, LocalId(ack.cid),
                                                   ack.success, ack.serverId)]
         /\ calls' = [calls EXCEPT ![u] = @ \ AwaitingCalls(u, ack.cid)]
         /\ UNCHANGED <<timerVars, mounted, loading, error>>
    ELSE IF AckResolves(ack)
    THEN /\ messages' = [messages EXCEPT
                           ![u] = MarkDelivered(@, LocalId(ack.cid),
                                                ack.serverId)]
         /\ loading' = [loading EXCEPT ![u] = FALSE]
         /\ calls' = [calls EXCEPT ![u] = @ \ AwaitingCalls(u, ack.cid)]
         /\ UNCHANGED <<timerVars, mounted, error>>
    ELSE SendCatch(u, ack.cid, "plain", "Failed")

\* the socket delivers the next event or acknowledgement to the client
ClientRecv(u) ==
    /\ down[u] # <<>>
    /\ down' = [down EXCEPT ![u] = Tail(@)]
    /\ LET e == Head(down[u])
       IN  IF ~mounted[u]
           THEN UNCHANGED <<timerVars, mounted, messages, loading, error,
                            calls, unreadCount, typingUsers, users>>
           ELSE IF e.type = "receive_message"
           THEN /\ onReceiveMessage(u, e.msg)
                /\ UNCHANGED <<timerVars, mounted, loading, error, calls,
                               typingUsers, users>>
           ELSE IF e.type = "ack"
           THEN /\ onAck(u, e)
                /\ UNCHANGED <<unreadCount, typingUsers, users>>
           ELSE IF e.type = "user_typing"
           THEN /\ onUserTyping(u, e)
                /\ UNCHANGED <<timerVars, mounted, messages, loading, error,
                               calls, unreadCount, users>>
           ELSE IF e.type = "user_stop_typing"
           THEN /\ onUserStopTyping(u, e)
                /\ UNCHANGED <<timerVars, mounted, messages, loading, error,
                               calls, unreadCount, users>>
           ELSE /\ onUserList(u, e.list)
                /\ UNCHANGED <<timerVars, mounted, messages, loading, error,
                               calls, unreadCount, typingUsers>>
    /\ UNCHANGED <<variant, retryVars, connectionStatus, dropsLeft, pageVars, message, file, currentRoom, hasMoreOlder,
                   fetching, nextLocal, up, serverVars, ghostVars>>

\* a click on another room: handleRoomSwitch, then the effects that depend
\* on currentRoom (socket setup, fetchMessages where it exists, typing)
handleRoomSwitch(u, room) ==
    /\ mounted[u]
    /\ room # currentRoom[u]
    /\ switchesLeft > 0
    /\ switchesLeft' = switchesLeft - 1
    /\ currentRoom' = [currentRoom EXCEPT ![u] = room]
    /\ messages' = [messages EXCEPT ![u] = <<>>]
    /\ hasMoreOlder' = [hasMoreOlder EXCEPT ![u] = TRUE]
    /\ typingUsers' = [typingUsers EXCEPT ![u] = {}]
    /\ up' = Enqueue(up, u, <<EvJoinRoom(room, u)>>
                            \o SocketEffectEvents(room, u)
                            \o TypingEffectEvents(message[u], room, u))
    /\ typingTimers' = [typingTimers EXCEPT
                           ![u] = TypingEffectTimers(@, typingTimeoutRef[u],
                                                     message[u], room)]
    /\ typingTimeoutRef' = [typingTimeoutRef EXCEPT
                               ![u] = TypingEffectRef(typingTimers[u], @,
                                                      message[u], room)]
    /\ IF variant = VChat
       THEN UNCHANGED <<fetching, loading, error>>
       ELSE /\ fetching' = [fetching EXCEPT ![u] = Append(@, room)]
            /\ loading' = [loading EXCEPT ![u] = TRUE]
            /\ error' = [error EXCEPT ![u] = NoError]
    /\ UNCHANGED <<variant, retryVars, presenceVars, pageVars, mounted, message, file, unreadCount, calls,
                   nextLocal, down, serverVars, emitCount, uploadCount,
                   lastSubmit, callLog, sendsLeft, editsLeft>>

\* ----------------------------------------------- history route and fetch
initialLimit == 50

RECURSIVE SelectRoom(_, _)
SelectRoom(h, r) ==
    IF h = <<>> THEN <<>>
    ELSE IF Head(h).room = r THEN <<Head(h)>> \o SelectRoom(Tail(h), r)
    ELSE SelectRoom(Tail(h), r)

LastN(q, n) == IF Len(q) <= n THEN q ELSE SubSeq(q, Len(q) - n + 1, Len(q))

\* GET /api/messages/:room?limit=50 : the most recent messages, oldest first
RecentPage(r) == LastN(SelectRoom(history, r), initialLimit)

\* fetchMessages of part_001 and part_002: the request for room
\* fetching[u][i] returns
FetchDone(u, i) ==
    /\ mounted[u]
    /\ i \in 1..Len(fetching[u])
    /\ LET r == fetching[u][i]
       IN  /\ messages' = [messages EXCEPT ![u] = RecentPage(r)]
           /\ unreadCount' = [unreadCount EXCEPT ![u][r] = 0]
    /\ loading' = [loading EXCEPT ![u] = FALSE]
    /\ fetching' = [fetching EXCEPT ![u] = RemoveAt(@, i)]
    /\ UNCHANGED <<variant, retryVars, presenceVars, pageVars, mounted, message, file, currentRoom, error,
                   hasMoreOlder, typingUsers, typingTimers, typingTimeoutRef, calls, nextLocal,
                   netVars, serverVars, ghostVars>>

\* fetchMessages: the request fails (after the retries, where there are any)
FetchFail(u, i, kind) ==
    /\ mounted[u]
    /\ i \in 1..Len(fetching[u])
    /\ error' = [error EXCEPT
                    ![u] = IF variant = VPart1 THEN handleApiErrorPart1(kind)
                           ELSE "Failed to load messages"]
    /\ loading' = [loading EXCEPT ![u] = FALSE]
    /\ fetching' = [fetching EXCEPT ![u] = RemoveAt(@, i)]
    /\ UNCHANGED <<variant, retryVars, presenceVars, pageVars, mounted, message, file, currentRoom, messages,
                   hasMoreOlder, typingUsers, unreadCount, typingTimers, typingTimeoutRef, calls,
                   nextLocal, netVars, serverVars, ghostVars>>

\* ------------------------------------------------------- apiCallWithRetry
\* what one invocation of apiCall may give: a response or an error
RetryResults == {"res1", "res2"}

\* a loop condition that allows one attempt more
LoopContinuesOneMore(i, n) == i <= n + 1

\* the condition of the for loop: i <= retries
LoopContinues(i, n) == i <= n

\* part_001 leaves the loop at once after the last attempt failed
\* (if (attempt === maxRetries) break); Chat.jsx waits 500 * i first
BreaksAfterLast(v, i, n) == v = VPart1 /\ i = n

\* apiCallWithRetry(apiCall) is called with the default retries = 3: the
\* loop starts with i = 1 and awaits apiCall()
RetryStart ==
    /\ retry.phase \in {"idle", "returned", "threw"}
    /\ retryRunsLeft > 0
    /\ retryRunsLeft' = retryRunsLeft - 1
    /\ retry' = [phase |-> IF LoopContinues(1, retries) THEN "call"
                           ELSE "threw",
                 i |-> 1, log |-> <<>>, lastError |-> "-", value |-> "-"]
    /\ UNCHANGED <<variant, clientVars, netVars, serverVars, ghostVars,
                   presenceVars, pageVars>>

\* the awaited apiCall() resolves: return await apiCall()
RetryCallOk(res) ==
    /\ retry.phase = "call"
    /\ retry' = [retry EXCEPT !.phase = "returned", !.value = res,
                              !.log = Append(@, [ok |-> TRUE, v |-> res])]
    /\ UNCHANGED <<variant, clientVars, netVars, serverVars, ghostVars,
                   presenceVars, pageVars, retryRunsLeft>>

\* the awaited apiCall() rejects: the catch block keeps the error and
\* starts the wait, or part_001 breaks and throws
RetryCallFail(kind) ==
    /\ retry.phase = "call"
    /\ retry' = [retry EXCEPT
                   !.log = Append(@, [ok |-> FALSE, v |-> kind]),
                   !.lastError = kind,
                   !.phase = IF BreaksAfterLast(variant, retry.i, retries)
                             THEN "threw" ELSE "wait",
                   !.value = IF BreaksAfterLast(variant, retry.i, retries)
                             THEN kind ELSE @]
    /\ UNCHANGED <<variant, clientVars, netVars, serverVars, ghostVars,
                   presenceVars, pageVars, retryRunsLeft>>

\* the wait between two attempts is over: i++, then the next attempt, or
\* throw lastError when the loop has ended
RetryWaitOver ==
    /\ retry.phase = "wait"
    /\ retry' = [retry EXCEPT
                   !.i = @ + 1,
                   !.phase = IF LoopContinues(retry.i + 1, retries)
                             THEN "call" ELSE "threw",
                   !.value = IF LoopContinues(retry.i + 1, retries)
                             THEN @ ELSE retry.lastError]
    /\ UNCHANGED <<variant, clientVars, netVars, serverVars, ghostVars,
                   presenceVars, pageVars, retryRunsLeft>>

\* ------------------------------------------------ older pages and clock
\* the messages of room r with a timestamp strictly before T, oldest first
OlderThan(h, r, T) ==
    SelectSeq(h, LAMBDA m : m.room = r /\ m.timestamp < T)

\* page that also returns the messages stamped T
PageInclusive(h, r, limit, T) ==
    LastN(SelectSeq(h, LAMBDA m : m.room = r /\ m.timestamp <= T), limit)

\* GET /api/messages/:room?limit=..&before=T : the limit messages
\* immediately preceding T, oldest first
Page(h, r, limit, T) == LastN(OlderThan(h, r, T), limit)

\* the cursor that skips the timeline
CursorNow(msgs, t) == t

\* before: the timestamp of the first timeline entry, or the current time;
\* new Date(ts).toISOString() gives back the ISO timestamp it was given
Cursor(msgs, t) == IF Len(msgs) # 0 THEN msgs[1].timestamp ELSE t

\* the request loadOlderMessages builds
PageRequest(u) ==
    [room |-> currentRoom[u], limit |-> olderLimit,
     before |-> Cursor(messages[u], now), attempt |-> 1]

\* the guard that ignores hasMoreOlder
OlderGuardNoHasMore(isLoadingOlder, hasMore) == isLoadingOlder

\* the guard that ignores loadingOlder
OlderGuardNoLoading(isLoadingOlder, hasMore) == ~hasMore

\* the guard at the top of loadOlderMessages: TRUE when the call returns
OlderGuardReturns(isLoadingOlder, hasMore) == isLoadingOlder \/ ~hasMore

\* hasMoreOlder after a page that leaves it alone
HasMoreUnchanged(hasMore, page) == hasMore

\* hasMoreOlder after a page arrived
HasMoreAfter(hasMore, page) == IF Len(page) = 0 THEN FALSE ELSE hasMore

\* the timeline after a page arrived
PrependPage(prev, page) == IF Len(page) = 0 THEN prev ELSE page \o prev

\* Chat.jsx calls loadOlderMessages whenever the message list is scrolled
\* to its top; part_001 and part_002 show a button while hasMoreOlder and
\* disable it while loadingOlder
LoadOlderEnabled(u) ==
    variant = VChat \/ (hasMoreOlder[u] /\ ~loadingOlder[u])

\* loadOlderMessages up to its await
LoadOlder(u) ==
    /\ mounted[u] /\ LoadOlderEnabled(u)
    /\ loadsLeft > 0
    /\ loadsLeft' = loadsLeft - 1
    /\ IF OlderGuardReturns(loadingOlder[u], hasMoreOlder[u])
       THEN /\ pageLog' = [pageLog EXCEPT ![u].outcome = "ignored"]
            /\ UNCHANGED <<loadingOlder, paging, error>>
       ELSE /\ loadingOlder' = [loadingOlder EXCEPT ![u] = TRUE]
            /\ error' = [error EXCEPT ![u] = NoError]
            /\ paging' = [paging EXCEPT ![u] = Append(@, PageRequest(u))]
            /\ pageLog' = [pageLog EXCEPT
                             ![u] = [room |-> PageRequest(u).room,
                                     before |-> PageRequest(u).before,
                                     limit |-> PageRequest(u).limit,
                                     outcome |-> "pending", count |-> 0]]
    /\ UNCHANGED <<variant, retryVars, presenceVars, now, ticksLeft, mounted, message,
                   file, currentRoom, messages, loading, hasMoreOlder,
                   typingUsers, unreadCount, timerVars, calls, fetching,
                   nextLocal, netVars, serverVars, ghostVars>>

\* the older-page request returns its page
PageDone(u) ==
    /\ mounted[u]
    /\ paging[u] # <<>>
    /\ LET p == Head(paging[u])
           page == Page(history, p.room, p.limit, p.before)
       IN  /\ messages' = [messages EXCEPT ![u] = PrependPage(@, page)]
           /\ hasMoreOlder' = [hasMoreOlder EXCEPT
                                  ![u] = HasMoreAfter(@, page)]
           /\ pageLog' = [pageLog EXCEPT ![u].outcome = "done",
                                         ![u].count = Len(page)]
    /\ loadingOlder' = [loadingOlder EXCEPT ![u] = FALSE]
    /\ paging' = [paging EXCEPT ![u] = Tail(@)]
    /\ UNCHANGED <<variant, retryVars, presenceVars, now, loadsLeft, ticksLeft, mounted,
                   message, file, currentRoom, loading, error, typingUsers,
                   unreadCount, timerVars, calls, fetching, nextLocal,
                   netVars, serverVars, ghostVars>>

\* the text loadOlderMessages shows when its request failed
OlderErrorText(v, kind) ==
    IF v = VChat THEN handleApiError(kind)
    ELSE IF v = VPart1 THEN handleApiErrorPart1(kind)
    ELSE "Failed to load older messages"

\* the older-page request fails: apiCallWithRetry tries again or gives up
PageFail(u, kind) ==
    /\ mounted[u]
    /\ paging[u] # <<>>
    /\ IF Head(paging[u]).attempt < RetriesFor(variant)
       THEN /\ paging' = [paging EXCEPT
                            ![u] = <<[Head(@) EXCEPT !.attempt = @ + 1]>>
                                   \o Tail(@)]
            /\ UNCHANGED <<loadingOlder, error, pageLog>>
       ELSE /\ paging' = [paging EXCEPT ![u] = Tail(@)]
            /\ loadingOlder' = [loadingOlder EXCEPT ![u] = FALSE]
            /\ error' = [error EXCEPT ![u] = OlderErrorText(variant, kind)]
            /\ pageLog' = [pageLog EXCEPT ![u].outcome = "failed"]
    /\ UNCHANGED <<variant, retryVars, presenceVars, now, loadsLeft, ticksLeft, mounted,
                   message, file, currentRoom, messages, loading,
                   hasMoreOlder, typingUsers, unreadCount, timerVars, calls,
                   fetching, nextLocal, netVars, serverVars, ghostVars>>

\* a millisecond passes
Tick ==
    /\ ticksLeft > 0
    /\ ticksLeft' = ticksLeft - 1
    /\ now' = now + 1
    /\ UNCHANGED <<variant, retryVars, presenceVars, loadingOlder, paging, pageLog,
                   loadsLeft, clientVars, netVars, serverVars, ghostVars>>

\* ----------------------------------------------------------------- server
\* Connection Registry and Room Broadcaster: members of a room
Members(r) == {v \in Users : connRoom[v] = r}

\* broadcast(room, event, excludeConnection?)
Broadcast(q, r, e, exclude) ==
    [v \in Users |->
        IF v \in Members(r) \ exclude THEN Append(q[v], e) ELSE q[v]]

\* a membership list without connection v
Without(list, v) == SelectSeq(list, LAMBDA w : w # v)

\* joinRoom that leaves the previous room's membership as it is
JoinRoomKeepPrevious(mem, v, r) ==
    [q \in Rooms |-> IF q = r THEN Append(Without(mem[q], v), v) ELSE mem[q]]

\* joinRoom(connectionId, room): removes the connection from any previous
\* room's membership and adds it to the new room's membership
JoinRoom(mem, v, r) ==
    [q \in Rooms |->
        IF q = r THEN Append(Without(mem[q], v), v) ELSE Without(mem[q], v)]

\* unregister that leaves the room memberships as they are
UnregisterKeepMember(mem, v) == mem

\* unregister(connectionId): removes the connection from its room's
\* membership
Unregister(mem, v) == [q \in Rooms |-> Without(mem[q], v)]

\* the presence push: every room whose membership changed sends its new
\* snapshot to its members
RECURSIVE PushTo(_, _, _)
PushTo(q, list, e) ==
    IF list = <<>> THEN q
    ELSE PushTo([q EXCEPT ![Head(list)] = Append(@, e)], Tail(list), e)

RECURSIVE PresencePush(_, _, _, _)
PresencePush(q, old, new, rooms) ==
    IF rooms = {} THEN q
    ELSE LET r == CHOOSE x \in rooms : TRUE
             pushed == IF old[r] = new[r] THEN q
                       ELSE PushTo(q, new[r],
                                   EvUserList(presenceSnapshot(new, r)))
         IN  PresencePush(pushed, old, new, rooms \ {r})

\* step 1 of submit: non-empty text or attachment, recognized room
ServerValid(m) ==
    /\ Truthy(m.text) \/ m.fileUrl # NoUrl
    /\ m.room \in Rooms

\* the persisted copy of a submission, with its durable identity
Persisted(m, k) ==
    [m EXCEPT !.id = ServerId(k), !.local = FALSE, !.status = "none",
              !.timestamp = now]

\* the server handles the next event of connection u; persistOk tells
\* whether the append to the history succeeds
ServerRecv(u, persistOk) ==
    /\ connectionStatus[u] = "connected"
    /\ up[u] # <<>>
    /\ up' = [up EXCEPT ![u] = Tail(@)]
    /\ LET e == Head(up[u])
       IN  IF e.type = "userConnected"
           THEN /\ registered' = [registered EXCEPT ![u] = TRUE]
                /\ UNCHANGED <<connRoom, members, history, pendingAck,
                               pendingCast, down>>
           ELSE IF e.type = "join_room"
           THEN /\ connRoom' = [connRoom EXCEPT ![u] = e.room]
                /\ members' = JoinRoom(members, u, e.room)
                /\ down' = PresencePush(down, members,
                                        JoinRoom(members, u, e.room), Rooms)
                /\ UNCHANGED <<registered, history, pendingAck, pendingCast>>
           ELSE IF e.type \in {"user_typing", "user_stop_typing"}
           THEN /\ down' = Broadcast(down, e.room, e, {u})
                /\ UNCHANGED <<registered, connRoom, members, history,
                               pendingAck, pendingCast>>
           ELSE IF ServerValid(e.msg) /\ persistOk
           THEN /\ history' = Append(history,
                                     Persisted(e.msg, Len(history) + 1))
                /\ pendingAck' = pendingAck \cup {Len(history) + 1}
                /\ pendingCast' = pendingCast \cup {Len(history) + 1}
                /\ UNCHANGED <<registered, connRoom, members, down>>
           ELSE /\ down' = [down EXCEPT
                              ![u] = Append(@, EvAck(e.msg.cid, FALSE, NoId))]
                /\ UNCHANGED <<registered, connRoom, members, history,
                               pendingAck, pendingCast>>
    /\ UNCHANGED <<variant, retryVars, presenceVars, pageVars, clientVars, ghostVars>>

\* step 3 of submit: the success acknowledgement, after persistence
ServerAck(k) ==
    /\ k \in pendingAck
    /\ pendingAck' = pendingAck \ {k}
    /\ down' = [down EXCEPT
                   ![history[k].sender] =
                       Append(@, EvAck(history[k].cid, TRUE, history[k].id))]
    /\ UNCHANGED <<variant, retryVars, presenceVars, pageVars, clientVars, up,
                   registered, connRoom, members, history, pendingCast,
                   ghostVars>>

\* step 4 of submit: fan out the persisted message to the room, excluding
\* none
ServerBroadcast(k) ==
    /\ k \in pendingCast
    /\ pendingCast' = pendingCast \ {k}
    /\ down' = Broadcast(down, history[k].room, EvReceiveMessage(history[k]),
                         {})
    /\ UNCHANGED <<variant, retryVars, presenceVars, pageVars, clientVars, up,
                   registered, connRoom, members, history, pendingAck,
                   ghostVars>>

\* the transport of connection u drops.  The events in flight in both
\* directions are lost and so are the acknowledgements the server still
\* owed it; the server unregisters the connection and pushes the presence of
\* the room it vacated; the client's disconnect handler runs
Disconnect(u) ==
    /\ connectionStatus[u] = "connected"
    /\ dropsLeft > 0
    /\ dropsLeft' = dropsLeft - 1
    /\ connectionStatus' = [connectionStatus EXCEPT ![u] = "disconnected"]
    /\ registered' = [registered EXCEPT ![u] = FALSE]
    /\ connRoom' = [connRoom EXCEPT ![u] = NoRoom]
    /\ members' = Unregister(members, u)
    /\ pendingAck' = {k \in pendingAck : history[k].sender # u}
    /\ up' = [up EXCEPT ![u] = <<>>]
    /\ down' = PresencePush([down EXCEPT ![u] = <<>>], members,
                            Unregister(members, u), Rooms)
    /\ UNCHANGED <<variant, retryVars, users, pageVars, clientVars, history,
                   pendingCast, ghostVars>>

\* the transport reconnects: a new connection, bound to no user and in no
\* room; the client's connect handler runs
Reconnect(u) ==
    /\ connectionStatus[u] = "disconnected"
    /\ connectionStatus' = [connectionStatus EXCEPT ![u] = "connected"]
    /\ UNCHANGED <<variant, retryVars, users, dropsLeft, pageVars, clientVars, netVars,
                   serverVars, ghostVars>>

\* an unmount whose cleanup leaves the typing timer pending
UnmountKeepTimers(u) ==
    /\ mounted[u]
    /\ calls[u] = {} /\ fetching[u] = <<>> /\ paging[u] = <<>>
    /\ dropsLeft > 0
    /\ dropsLeft' = dropsLeft - 1
    /\ mounted' = [mounted EXCEPT ![u] = FALSE]
    /\ UNCHANGED <<variant, retryVars, users, connectionStatus, pageVars, message, file,
                   currentRoom, messages, loading, error, hasMoreOlder,
                   typingUsers, unreadCount, timerVars, calls, fetching,
                   nextLocal, netVars, serverVars, ghostVars>>

\* logout while no request and no send is in flight: the component
\* unmounts and the cleanup of its effects runs
Unmount(u) ==
    /\ mounted[u]
    /\ calls[u] = {} /\ fetching[u] = <<>> /\ paging[u] = <<>>
    /\ dropsLeft > 0
    /\ dropsLeft' = dropsLeft - 1
    /\ mounted' = [mounted EXCEPT ![u] = FALSE]
    /\ typingTimers' = [typingTimers EXCEPT
                           ![u] = ClearTimeout(@, typingTimeoutRef[u])]
    /\ typingTimeoutRef' = [typingTimeoutRef EXCEPT ![u] = 0]
    /\ UNCHANGED <<variant, retryVars, users, connectionStatus, pageVars, message, file,
                   currentRoom, messages, loading, error, hasMoreOlder,
                   typingUsers, unreadCount, calls, fetching, nextLocal,
                   netVars, serverVars, ghostVars>>

\* ------------------------------------------------------------------- Next
Next ==
    \/ \E u \in Actors, t \in Texts : SetMessage(u, t)
    \/ \E u \in Actors, f \in Files : SetFile(u, f)
    \/ \E u \in Users : \E i \in 1..Len(typingTimers[u]) : TypingExpire(u, i)
    \/ \E u \in Actors : Submit(u)
    \/ \E u \in Users : \E c \in calls[u] : UploadOk(u, c)
    \/ \E u \in Users : \E c \in calls[u] : \E k \in ErrKinds :
          UploadFail(u, c, k)
    \/ \E u \in Users : \E c \in calls[u] : SendTimeout(u, c)
    \/ \E u \in Users : ClientRecv(u)
    \/ \E u \in Actors, r \in Rooms : handleRoomSwitch(u, r)
    \/ \E u \in Users, ok \in BOOLEAN : ServerRecv(u, ok)
    \/ \E k \in pendingAck : ServerAck(k)
    \/ \E k \in pendingCast : ServerBroadcast(k)

NextVariants ==
    \/ Next
    \/ \E u \in Users : \E i \in 1..Len(fetching[u]) : FetchDone(u, i)
    \/ \E u \in Users : \E i \in 1..Len(fetching[u]) : \E k \in ErrKinds :
          FetchFail(u, i, k)

\* rooms, typing and connections without submissions
NextPresence ==
    \/ \E u \in Actors, t \in Texts : SetMessage(u, t)
    \/ \E u \in Users : \E i \in 1..Len(typingTimers[u]) : TypingExpire(u, i)
    \/ \E u \in Users : ClientRecv(u)
    \/ \E u \in Actors, r \in Rooms : handleRoomSwitch(u, r)
    \/ \E u \in Users, ok \in BOOLEAN : ServerRecv(u, ok)
    \/ \E u \in Users : Disconnect(u)
    \/ \E u \in Users : Reconnect(u)
    \/ \E u \in Actors : Unmount(u)

\* older pages, the clock and everything that changes the timeline
NextPaging ==
    \/ \E u \in Actors : SetMessage(u, <<" ", "h">>)
    \/ \E u \in Actors : Submit(u)
    \/ \E u \in Users : ClientRecv(u)
    \/ \E u \in Actors, r \in Rooms : handleRoomSwitch(u, r)
    \/ \E u \in Users : ServerRecv(u, TRUE)
    \/ \E k \in pendingAck : ServerAck(k)
    \/ \E k \in pendingCast : ServerBroadcast(k)
    \/ \E u \in Users : \E i \in 1..Len(fetching[u]) : FetchDone(u, i)
    \/ \E u \in Actors : LoadOlder(u)
    \/ \E u \in Users : PageDone(u)
    \/ \E u \in Users, k \in ErrKinds : PageFail(u, k)
    \/ Tick

\* everything that adds entries to the timeline of Chat.jsx, and the clock
NextOrder ==
    \/ \E u \in Actors : SetMessage(u, <<"h">>)
    \/ \E u \in Actors : Submit(u)
    \/ \E u \in Users : ClientRecv(u)
    \/ \E u \in Users : ServerRecv(u, TRUE)
    \/ \E k \in pendingAck : ServerAck(k)
    \/ \E k \in pendingCast : ServerBroadcast(k)
    \/ \E u \in Actors : LoadOlder(u)
    \/ \E u \in Users : PageDone(u)
    \/ Tick

Spec == Init /\ [][Next]_vars

SpecOrder == InitOrder /\ [][NextOrder]_vars

\* two members who both type and both change rooms
NextTyping ==
    \/ \E u \in Users, t \in {<<>>, <<"h">>} : SetMessage(u, t)
    \/ \E u \in Users : \E i \in 1..Len(typingTimers[u]) : TypingExpire(u, i)
    \/ \E u \in Users, r \in Rooms : handleRoomSwitch(u, r)
    \/ \E u \in Users : ClientRecv(u)
    \/ \E u \in Users : ServerRecv(u, TRUE)

SpecTyping == InitTyping /\ [][NextTyping]_vars

\* The event loop runs every timer callback that is due, the server handles
\* every event it receives and the client every event pushed to it.
TypingPairFairness ==
    /\ \A u \in Users : WF_vars(\E i \in 1..2 : TypingExpire(u, i))
    /\ \A u \in Users : WF_vars(ServerRecv(u, TRUE))
    /\ \A u \in Users : WF_vars(ClientRecv(u))

FairSpecTypingPair == SpecTyping /\ TypingPairFairness

\* apiCallWithRetry on its own, with every outcome of every attempt
NextRetry ==
    \/ RetryStart
    \/ \E res \in RetryResults : RetryCallOk(res)
    \/ \E kind \in ErrKinds : RetryCallFail(kind)
    \/ RetryWaitOver

SpecRetry == InitRetry /\ [][NextRetry]_vars

SpecPaging == InitPaging /\ [][NextPaging]_vars

SpecPresence == InitPresence /\ [][NextPresence]_vars

SpecRoom == InitRoom /\ [][Next]_vars

SpecVariants == InitVariants /\ [][NextVariants]_vars

\* The event loop runs every timer callback that is due and every event the
\* socket has received, and every HTTP request ends.  Nothing is assumed of
\* the server: it may never handle or acknowledge an event.
ClientFairness ==
    /\ \A u \in Users : WF_vars(\E c \in calls[u] : SendTimeout(u, c))
    /\ \A u \in Users : WF_vars(ClientRecv(u))
    /\ \A u \in Users :
          WF_vars(\E c \in calls[u] : \E k \in ErrKinds :
                     UploadOk(u, c) \/ UploadFail(u, c, k))
    /\ \A u \in Users :
          WF_vars(\E i \in 1..Len(fetching[u]) : FetchDone(u, i))

FairSpecVariants == SpecVariants /\ ClientFairness

\* The event loop runs every timer callback that is due.
TimerFairness ==
    \A u \in Users : WF_vars(\E i \in 1..2 : TypingExpire(u, i))

FairSpecTyping == Spec /\ TimerFairness

\* The transport reconnects, the server handles every event it receives and
\* the client every event pushed to it.
PresenceFairness ==
    /\ \A u \in Users : WF_vars(Reconnect(u))
    /\ \A u \in Users : WF_vars(ServerRecv(u, TRUE))
    /\ \A u \in Users : WF_vars(ClientRecv(u))

FairSpecPresence == SpecPresence /\ PresenceFairness

\* ----------------------------------------------------------------- claims
CallNumbers == DOMAIN callLog

\* the statuses shown for the outbound message of call n in a timeline
LocalStatus(msgs, n) ==
    {msgs[i].status : i \in {j \in 1..Len(msgs) : msgs[j].local /\ msgs[j].cid = n}}

StatusStep(u, n) ==
    /\ \A s \in LocalStatus(messages[u], n) :
          \A t \in LocalStatus(messages'[u], n) :
             t = s \/ (s = "sending" /\ t \in {"delivered", "failed"})
    /\ (LocalStatus(messages[u], n) = {} /\ LocalStatus(messages'[u], n) # {})
          => LocalStatus(messages'[u], n) = {"sending"}

\* C1: the status of an outbound message changes only from sending to
\* delivered or from sending to failed; a delivered or failed message keeps
\* its status in every later step, and a new outbound message starts as sending.
C1_StatusOnlyLeavesSending ==
    [][\A u \in Users : \A n \in CallNumbers : StatusStep(u, n)]_vars

\* one message has failed and another has been delivered in the same timeline
C1_Witness ==
    \E u \in Users : \E n, m \in CallNumbers :
        /\ LocalStatus(messages[u], n) = {"failed"}
        /\ LocalStatus(messages[u], m) = {"delivered"}

IsPrefix(p, q) == Len(p) <= Len(q) /\ SubSeq(q, 1, Len(p)) = p

\* C2: when the 10 second timer of a send fires before any acknowledgement,
\* the local copy of that message is failed afterwards; a failed copy never
\* becomes delivered (a late success acknowledgement changes nothing); and
\* the server keeps what it persisted.
C2_TimeoutFailsAndStays ==
    [][/\ \A u \in Users : \A c \in calls[u] :
            SendTimeout(u, c) => LocalStatus(messages'[u], c.n) \subseteq {"failed"}
       /\ \A u \in Users : \A n \in CallNumbers :
            "failed" \in LocalStatus(messages[u], n)
               => "delivered" \notin LocalStatus(messages'[u], n)
       /\ IsPrefix(history, history')]_vars

\* C3: every outbound message that is shown as sending is eventually no
\* longer shown as sending, whatever the server does.
C3_SendingEventuallyLeaves ==
    \A u \in Users : \A n \in 1..MaxSends :
        ("sending" \in LocalStatus(messages[u], n))
            ~> ("sending" \notin LocalStatus(messages[u], n))

\* the persisted messages that came from call n
PersistedOf(n) == {k \in 1..Len(history) : history[k].cid = n}

\* the acknowledgements in flight to u
AcksInFlight(u) ==
    {down[u][i] : i \in {j \in 1..Len(down[u]) : down[u][j].type = "ack"}}

\* C4: a message shown as delivered is in the persisted history under the
\* durable id it took, and every success acknowledgement in flight names a
\* message that is already persisted.
C4_DeliveredImpliesPersisted ==
    /\ \A u \in Users : \A i \in 1..Len(messages[u]) :
          (messages[u][i].local /\ messages[u][i].status = "delivered")
             => \E k \in PersistedOf(messages[u][i].cid) :
                   history[k].id = messages[u][i].id
    /\ \A u \in Users : \A a \in AcksInFlight(u) :
          a.success => \E k \in PersistedOf(a.cid) : history[k].id = a.serverId

\* a delivered message is on display
C4_Witness ==
    \E u \in Users : \E i \in 1..Len(messages[u]) :
        messages[u][i].local /\ messages[u][i].status = "delivered"

\* the calls that passed the guard and validateFile
PassedValidation(n) == callLog[n] \in {"uploading", "uploadFailed", "emitted"}

\* the calls that have run past their upload
PastUpload(n) == callLog[n] \in {"uploadFailed", "emitted"}

\* C5 as stated: every sendMessage call that passed validation has, once it
\* is past its upload, emitted send_message exactly once.
C5_Original ==
    \A n \in CallNumbers : PastUpload(n) => emitCount[n] = 1

\* C5 amended: a call emits send_message at most once and the server
\* persists it at most once; it has emitted exactly once when it reached the
\* emit, and not at all when it was rejected or its upload failed.
C5_EmittedAtMostOnce ==
    \A n \in CallNumbers :
        /\ emitCount[n] <= 1
        /\ Cardinality(PersistedOf(n)) <= emitCount[n]
        /\ callLog[n] = "emitted" => emitCount[n] = 1
        /\ callLog[n] # "emitted" => emitCount[n] = 0

\* a message has failed (by timeout or failed acknowledgement) after its
\* single emit, and the call has ended
C5_Witness ==
    \E u \in Users : \E n \in CallNumbers :
        /\ LocalStatus(messages[u], n) = {"failed"}
        /\ emitCount[n] = 1
        /\ calls[u] = {}

IsEmptySubmission(u) == ~Truthy(Trim(message[u])) /\ file[u] = NoFile

HasContent(m) == Truthy(m.text) \/ m.fileUrl # NoUrl

\* the send_message events on their way to the server
SendsInFlight ==
    UNION {{up[u][i].msg : i \in {j \in 1..Len(up[u]) :
                                    up[u][j].type = "send_message"}} : u \in Users}

\* C6: a submission whose trimmed text is empty and that has no attachment
\* emits nothing, uploads nothing and leaves the timeline as it is; no
\* message without text and attachment is ever emitted or persisted.
C6_EmptyNeverSent ==
    /\ [](/\ \A m \in SendsInFlight : HasContent(m)
          /\ \A k \in 1..Len(history) : HasContent(history[k]))
    /\ [][\A u \in Users :
            (Submit(u) /\ IsEmptySubmission(u))
               => /\ up' = up /\ emitCount' = emitCount
                  /\ uploadCount' = uploadCount
                  /\ messages' = messages /\ history' = history]_vars

\* a whitespace-only text without attachment has been submitted while no
\* other send was running
C6_Witness ==
    \E u \in Users :
        /\ lastSubmit[u] = "ignored"
        /\ message[u] = <<" ">> /\ file[u] = NoFile
        /\ ~loading[u]

\* C7: a submission without text and attachment leaves an error on display.
C7_EmptySurfacesError ==
    [][\A u \in Users :
          (Submit(u) /\ IsEmptySubmission(u) /\ ~loading[u])
             => error'[u] # NoError]_vars

\* the indices of the timeline entries with the given id
WithId(msgs, id) == {i \in 1..Len(msgs) : msgs[i].id = id}

\* the step in which the client takes a success acknowledgement in time
AckInTime(u) ==
    /\ ClientRecv(u)
    /\ Head(down[u]).type = "ack" /\ Head(down[u]).success
    /\ AwaitingCalls(u, Head(down[u]).cid) # {}

\* C8: when a success acknowledgement arrives in time, at most one timeline
\* entry has the correlation id of that send; it becomes delivered and takes
\* the durable id of the persisted message; every other entry, and every
\* other timeline, is unchanged.
C8_AckUpdatesOnlyItsEntry ==
    [][\A u \in Users :
          AckInTime(u) =>
             LET a == Head(down[u])
                 hit == WithId(messages[u], LocalId(a.cid))
             IN  /\ Cardinality(hit) <= 1
                 /\ Len(messages'[u]) = Len(messages[u])
                 /\ \A i \in 1..Len(messages[u]) :
                       IF i \in hit
                       THEN /\ messages'[u][i].status = "delivered"
                            /\ messages'[u][i].id = a.serverId
                            /\ \E k \in PersistedOf(a.cid) :
                                  history[k].id = messages'[u][i].id
                            /\ [messages'[u][i] EXCEPT !.id = LocalId(a.cid),
                                                       !.status = "sending"]
                                  = messages[u][i]
                       ELSE messages'[u][i] = messages[u][i]
                 /\ \A v \in Users \ {u} : messages'[v] = messages[v]]_vars

\* the step in which the client takes a receive_message event
TakesMessage(u) ==
    ClientRecv(u) /\ mounted[u] /\ Head(down[u]).type = "receive_message"

\* the receive_message events in flight to u
CastsInFlight(u) ==
    {down[u][i].msg : i \in {j \in 1..Len(down[u]) :
                                 down[u][j].type = "receive_message"}}

\* C9: the fan-out of a persisted message appends one receive_message
\* carrying the durable id to the queue of every connection that is in the
\* message's room at that moment, the sender's included, and leaves every
\* other connection's queue alone; what is fanned out is persisted; and a
\* client whose current room differs from the message's room does not put
\* it on its timeline.
C9_FanOutToRoomMembers ==
    /\ [](\A u \in Users : \A m \in CastsInFlight(u) :
             \E k \in 1..Len(history) : history[k] = m /\ m.id = ServerId(k))
    /\ [][\A k \in pendingCast :
            ServerBroadcast(k) =>
               \A v \in Users :
                  IF connRoom[v] = history[k].room
                  THEN down'[v] = Append(down[v], EvReceiveMessage(history[k]))
                  ELSE down'[v] = down[v]]_vars
    /\ [][\A u \in Users :
            (TakesMessage(u) /\ Head(down[u]).msg.room # currentRoom[u])
               => messages'[u] = messages[u]]_vars

\* a message has been fanned out to the other member of its room, who
\* shows it, and not to its sender, who had joined another room by then
C9_Witness ==
    \E u, v \in Users : \E k \in 1..Len(history) :
        /\ u # v /\ history[k].sender = u
        /\ k \notin pendingCast
        /\ connRoom[u] # history[k].room
        /\ \E i \in 1..Len(messages[v]) : messages[v][i] = history[k]
        /\ history[k] \notin CastsInFlight(u)
        /\ unreadCount[u][history[k].room] = 0

\* the echo of call n has been fanned out and taken by u
EchoTaken(u, n) ==
    /\ PersistedOf(n) # {}
    /\ PersistedOf(n) \cap pendingCast = {}
    /\ \A m \in CastsInFlight(u) : m.cid # n

\* the timeline entries that show the message of call n
EntriesOf(msgs, n) == {i \in 1..Len(msgs) : msgs[i].cid = n}

\* C10: once the acknowledgement and the echo of a successful send have
\* both arrived, the sender's timeline shows that message exactly once.
C10_OneEntryAfterEchoAndAck ==
    \A u \in Users : \A n \in CallNumbers :
        ("delivered" \in LocalStatus(messages[u], n) /\ EchoTaken(u, n))
            => Cardinality(EntriesOf(messages[u], n)) = 1

\* a timeline holds a delivered message with its durable id next to another
\* entry
C8_Witness ==
    \E u \in Users : \E i, j \in 1..Len(messages[u]) :
        /\ i # j
        /\ messages[u][i].local /\ messages[u][i].status = "delivered"
        /\ messages[u][i].id \in {history[k].id : k \in 1..Len(history)}
        /\ messages[u][j].local /\ messages[u][j].status # "delivered"

\* how often v is listed in a membership list
Occurrences(list, v) == Cardinality({i \in 1..Len(list) : list[i] = v})

\* the step in which the server handles a join_room of connection u
HandlesJoin(u) ==
    /\ \E ok \in BOOLEAN : ServerRecv(u, ok)
    /\ Head(up[u]).type = "join_room"

\* the server has handled everything the mounted, connected client u
\* emitted
Settled(u) ==
    mounted[u] /\ registered[u] /\ connectionStatus[u] = "connected"
    /\ up[u] = <<>>

\* C11: when the server has handled a join_room of a connection for room r,
\* the presence snapshot of r lists its user exactly once and the snapshot
\* of every other room does not list it, whether or not the connection was
\* in r already; and once every join_room a client emitted for a room
\* switch is handled, that holds for the room the client shows.
C11_JoinMovesPresence ==
    /\ [][\A u \in Users :
            HandlesJoin(u) =>
               \A q \in Rooms :
                  Occurrences(presenceSnapshot(members', q), u)
                     = IF q = Head(up[u]).room THEN 1 ELSE 0]_vars
    /\ [](\A u \in Users :
             Settled(u) =>
                \A q \in Rooms :
                   Occurrences(presenceSnapshot(members, q), u)
                      = IF q = currentRoom[u] THEN 1 ELSE 0)

\* a client that switched from general to random is listed in random only,
\* after both join_room events of the switch were handled
C11_Witness ==
    \E u \in Users :
        /\ Settled(u) /\ switchesLeft = PresSwitches - 1
        /\ currentRoom[u] = "random"
        /\ presenceSnapshot(members, "random") = <<u>>
        /\ Occurrences(presenceSnapshot(members, "general"), u) = 0
        /\ presenceSnapshot(members, "general") # <<>>

\* C12: the room memberships agree with the registry: a connection is
\* listed in a room exactly when the registry has it in that room, and
\* never twice; a disconnected connection is in no room and not in the
\* registry.
C12_MembershipMatchesRegistry ==
    /\ \A v \in Users : \A r \in Rooms :
          Occurrences(members[r], v) = IF connRoom[v] = r THEN 1 ELSE 0
    /\ \A v \in Users :
          connectionStatus[v] = "disconnected"
             => ~registered[v] /\ connRoom[v] = NoRoom
                /\ \A r \in Rooms : Occurrences(members[r], v) = 0

\* the only member of random has disconnected and the snapshot of random
\* is the empty list
C12_Witness ==
    \E v \in Users :
        /\ connectionStatus[v] = "disconnected"
        /\ currentRoom[v] = "random"
        /\ dropsLeft = PresDrops - 1 /\ mounted[v]
        /\ unreadCount[v] = [r \in Rooms |-> 0]
        /\ users[v] = <<v>>
        /\ presenceSnapshot(members, "random") = <<>>

\* the step in which loadOlderMessages of u issues a request
IssuesPage(u) == LoadOlder(u) /\ paging'[u] # paging[u]

\* the entries a step put in front of the timeline of u
Prepended(u) ==
    SubSeq(messages'[u], 1, Len(messages'[u]) - Len(messages[u]))

\* C13: an older-page request of the client names its current room, limit
\* 20 and, as cursor, the timestamp of the first timeline entry or the
\* current time when the timeline is empty; the page that comes back holds
\* at most limit messages, all persisted, all of the requested room and all
\* stamped strictly before the cursor.
C13_PageBounds ==
    [][\A u \in Users :
          /\ IssuesPage(u) =>
                LET p == paging'[u][Len(paging'[u])]
                IN  /\ p.room = currentRoom[u]
                    /\ p.limit = olderLimit
                    /\ p.before = IF messages[u] = <<>> THEN now
                                  ELSE messages[u][1].timestamp
          /\ PageDone(u) =>
                LET p == Head(paging[u])
                    page == Prepended(u)
                IN  /\ Len(page) <= p.limit
                    /\ messages'[u] = page \o messages[u]
                    /\ \A i \in 1..Len(page) :
                          /\ page[i].room = p.room
                          /\ page[i].timestamp < p.before
                          /\ \E k \in 1..Len(history) : history[k] = page[i]]_vars

\* a full page of 20 has been put in front of a timeline that was not
\* empty, while older messages of the room remain
C13_Witness ==
    \E u \in Users :
        /\ pageLog[u].outcome = "done" /\ pageLog[u].count = olderLimit
        /\ Len(messages[u]) > olderLimit
        /\ pageLog[u].before = messages[u][olderLimit + 1].timestamp
        /\ Len(OlderThan(history, pageLog[u].room, pageLog[u].before))
              > olderLimit

\* C14: when an older-page request completes, hasMoreOlder is false
\* afterwards exactly when the page held no message; a page that is not
\* empty, shorter than the limit or not, leaves it true.
C14_HasMoreIffPageNotEmpty ==
    [][\A u \in Users :
          PageDone(u) =>
             LET p == Head(paging[u])
             IN  hasMoreOlder'[u]
                    = (Len(Page(history, p.room, p.limit, p.before)) # 0)]_vars

\* a page shorter than the limit arrived and hasMoreOlder is still true
C14_Witness ==
    \E u \in Users :
        /\ pageLog[u].outcome = "done"
        /\ pageLog[u].count \in 1..(olderLimit - 1)
        /\ hasMoreOlder[u] /\ ~loadingOlder[u]

\* C15: an empty page for the room on display sets hasMoreOlder to false;
\* hasMoreOlder becomes true again only when the room changes; and
\* loadOlderMessages issues no request while hasMoreOlder is false.
C15_EmptyPageEndsPaging ==
    [][\A u \in Users :
          /\ (PageDone(u) /\ Head(paging[u]).room = currentRoom[u]
                 /\ Len(Prepended(u)) = 0)
                => ~hasMoreOlder'[u]
          /\ (~hasMoreOlder[u] /\ hasMoreOlder'[u])
                => currentRoom'[u] # currentRoom[u]
          /\ IssuesPage(u) => hasMoreOlder[u]]_vars

\* after an empty page a message was appended to the room, and the next
\* call of loadOlderMessages returned without a request
C15_Witness ==
    \E u \in Users :
        /\ pageLog[u].outcome = "ignored" /\ pageLog[u].count = 0
        /\ pageLog[u].room = currentRoom[u]
        /\ ~hasMoreOlder[u] /\ ~loadingOlder[u] /\ paging[u] = <<>>
        /\ \E k \in 1..Len(history) : history[k].room = currentRoom[u]

\* the events a step of u added to its socket
Emitted(u) == SubSeq(up'[u], Len(up[u]) + 1, Len(up'[u]))

\* C16: a user has at most one pending typing-expiry timer; every change of
\* the input cancels the pending timer and, when the new text is not blank,
\* leaves exactly the one new timer, which typingTimeoutRef holds.
C16_OneTypingTimer ==
    /\ [](\A u \in Users : Len(typingTimers[u]) <= 1)
    /\ [][\A u \in Users :
             message'[u] # message[u] =>
                /\ typingTimers'[u] = IF Truthy(Trim(message'[u]))
                                      THEN <<currentRoom[u]>> ELSE <<>>
                /\ typingTimeoutRef'[u] = Len(typingTimers'[u])]_vars

\* a keystroke arrived while the timer of the previous keystroke was
\* pending: two user_typing events in a row, one timer
C16_Witness ==
    \E u \in Users :
        /\ Len(up[u]) >= 2
        /\ up[u][Len(up[u])] = EvTyping(currentRoom[u], u)
        /\ up[u][Len(up[u]) - 1] = EvTyping(currentRoom[u], u)
        /\ typingTimers[u] = <<currentRoom[u]>>

\* C17: a timer is started together with a user_typing event for its room
\* and user; a timer that goes away while the input text, the room and the
\* component stay as they are has fired and has emitted user_stop_typing
\* for that room and user; and a pending timer does go away.
C17_TypingExpires ==
    /\ [][\A u \in Users :
             /\ (typingTimers'[u] # <<>>
                   /\ typingTimers'[u] # typingTimers[u])
                  => /\ Emitted(u) # <<>>
                     /\ Emitted(u)[Len(Emitted(u))]
                           = EvTyping(typingTimers'[u][Len(typingTimers'[u])],
                                      u)
             /\ (Len(typingTimers'[u]) < Len(typingTimers[u])
                   /\ message'[u] = message[u]
                   /\ currentRoom'[u] = currentRoom[u]
                   /\ mounted'[u] = mounted[u])
                  => /\ Emitted(u) = <<EvStopTyping(currentRoom[u], u)>>
                     /\ typingTimers[u] = <<currentRoom[u]>>]_vars
    /\ \A u \in Users :
          (typingTimers[u] # <<>>) ~> (typingTimers[u] = <<>>)

\* the timer fired: user_typing and then user_stop_typing for the room on
\* display are the last events of the socket, the text is still in the input
C17_Witness ==
    \E u \in Users :
        /\ Len(up[u]) >= 2
        /\ up[u][Len(up[u])] = EvStopTyping(currentRoom[u], u)
        /\ up[u][Len(up[u]) - 1] = EvTyping(currentRoom[u], u)
        /\ Truthy(Trim(message[u]))
        /\ typingTimers[u] = <<>>

\* C18: every pending timer belongs to a mounted component and to the room
\* it displays, so a callback that fires emits for the current room and
\* user only; unmounting and changing the room leave no timer of the old
\* room pending.
C18_NoTimerLeak ==
    /\ [](\A u \in Users : \A i \in 1..Len(typingTimers[u]) :
             mounted[u] /\ typingTimers[u][i] = currentRoom[u])
    /\ [][\A u \in Users :
             /\ (mounted[u] /\ ~mounted'[u]) => typingTimers'[u] = <<>>
             /\ currentRoom'[u] # currentRoom[u]
                  => \A i \in 1..Len(typingTimers'[u]) :
                        typingTimers'[u][i] = currentRoom'[u]
             /\ (\E i \in 1..Len(typingTimers[u]) : TypingExpire(u, i))
                  => mounted[u]
                     /\ Emitted(u) = <<EvStopTyping(currentRoom[u], u)>>]_vars

\* the room changed while the timer of the old room was pending (no
\* user_stop_typing between user_typing and join_room), and later the
\* component unmounted while the timer of the new room was pending
C18_Witness ==
    \E u \in Users : \E k \in 1..Len(up[u]) :
        /\ k + 1 < Len(up[u])
        /\ up[u][k] = EvTyping(InitialRoom, u)
        /\ up[u][k + 1] = EvJoinRoom(currentRoom[u], u)
        /\ currentRoom[u] # InitialRoom
        /\ up[u][Len(up[u])] = EvTyping(currentRoom[u], u)
        /\ ~mounted[u]
        /\ typingTimers[u] = <<>>

\* C19: a step that emits send_message leaves no typing timer pending and
\* emits, directly before the send_message, user_stop_typing for the room
\* of the message and its sender.
C19_StopTypingBeforeSend ==
    [][\A u \in Users : \A i \in 1..Len(Emitted(u)) :
          Emitted(u)[i].type = "send_message" =>
             /\ typingTimers'[u] = <<>>
             /\ typingTimeoutRef'[u] = 0
             /\ Emitted(u)[i].msg.sender = u
             /\ i > 1
             /\ Emitted(u)[i - 1]
                   = EvStopTyping(Emitted(u)[i].msg.room, u)]_vars

\* a message was sent while the timer of the last keystroke was pending:
\* user_typing, user_stop_typing and send_message follow one another and
\* no timer is left
C19_Witness ==
    \E u \in Users : \E k \in 1..Len(up[u]) :
        /\ k + 2 <= Len(up[u])
        /\ up[u][k] = EvTyping(currentRoom[u], u)
        /\ up[u][k + 1] = EvStopTyping(currentRoom[u], u)
        /\ up[u][k + 2].type = "send_message"
        /\ up[u][k + 2].msg.room = currentRoom[u]
        /\ typingTimers[u] = <<>>

\* C20: in Chat.jsx and in part_002, submitting an attachment larger than
\* 5MB, or of a type outside jpeg, png, gif, webp and pdf, makes no upload
\* request, emits nothing, persists nothing, adds no message to the
\* timeline, starts no send and sets the error the submitter is shown.
C20_InvalidAttachmentRejected ==
    [][\A u \in Users :
          (/\ Submit(u)
           /\ variant \in {VChat, VPart2}
           /\ ~SendGuardReturns(message[u], file[u], loading[u])
           /\ file[u] # NoFile
           /\ \/ file[u].size > 5 * 1024 * 1024
              \/ file[u].type \notin {"image/jpeg", "image/png", "image/gif",
                                      "image/webp", "application/pdf"})
          => /\ uploadCount' = uploadCount
             /\ up' = up
             /\ history' = history
             /\ messages'[u] = messages[u]
             /\ calls' = calls
             /\ emitCount' = emitCount
             /\ error'[u] # NoError
             /\ ~loading'[u]]_vars

\* an attachment of a type that is not allowed was submitted and rejected:
\* the error is shown, nothing was uploaded, sent or added to the timeline
C20_Witness ==
    \E u \in Users :
        /\ variant \in {VChat, VPart2}
        /\ lastSubmit[u] = "invalid"
        /\ file[u] # NoFile /\ file[u].type \notin allowedTypes
        /\ error[u] # NoError
        /\ uploadCount[u] = 0
        /\ messages[u] = <<>>
        /\ \A n \in DOMAIN emitCount : emitCount[n] = 0

\* the send_message events of u that the server has not handled yet
EmittedSends(u) ==
    {i \in 1..Len(up[u]) : up[u][i].type = "send_message"}

\* C21 as stated: every emitted message has a non-empty text or a non-empty
\* attachment URL, and never both.
C21_Original ==
    \A u \in Users : \A i \in EmittedSends(u) :
        Truthy(up[u][i].msg.text) # (up[u][i].msg.fileUrl # NoUrl)

\* C21 amended: every emitted message has a non-empty trimmed text or a
\* non-empty attachment URL, or both; none has neither.
C21_TextOrAttachment ==
    \A u \in Users : \A i \in EmittedSends(u) :
        /\ up[u][i].msg.text = Trim(up[u][i].msg.text)
        /\ Truthy(up[u][i].msg.text) \/ up[u][i].msg.fileUrl # NoUrl

\* a message with a text and an uploaded attachment has been emitted
C21_Witness ==
    \E u \in Users : \E i \in EmittedSends(u) :
        Truthy(up[u][i].msg.text) /\ up[u][i].msg.fileUrl # NoUrl

\* C22: every entry of the timeline a client displays belongs to the room
\* the client displays.
C22_TimelineOfCurrentRoom ==
    \A u \in Users : \A i \in 1..Len(messages[u]) :
        messages[u][i].room = currentRoom[u]

\* TRUE when the server holds u as a member of the room u displays
RegisteredInRoom(u) ==
    /\ registered[u]
    /\ connRoom[u] = currentRoom[u]
    /\ Occurrences(presenceSnapshot(members, currentRoom[u]), u) = 1

\* C23: a client whose connection dropped while its chat stays open is
\* eventually connected again and registered as a member of the room it
\* displays.
C23_PresenceSelfHeals ==
    \A u \in Users :
        (mounted[u] /\ connectionStatus[u] = "disconnected")
            ~> (~mounted[u]
                \/ (connectionStatus[u] = "connected" /\ RegisteredInRoom(u)))

\* TRUE when, among the events of u the server has not handled yet, a
\* user_typing for room r is followed by no user_stop_typing for r
TypingOpen(u, r) ==
    \E i \in 1..Len(up[u]) :
        /\ up[u][i] = EvTyping(r, u)
        /\ \A j \in (i + 1)..Len(up[u]) : up[u][j] # EvStopTyping(r, u)

\* TRUE when the last typing event of u for room r, among those the server
\* has not handled yet, is a user_stop_typing
TypingClosed(u, r) ==
    \E i \in 1..Len(up[u]) :
        /\ up[u][i] = EvStopTyping(r, u)
        /\ \A j \in (i + 1)..Len(up[u]) : up[u][j] # EvTyping(r, u)

\* C24: a user_typing emitted for a room and user is eventually followed by
\* a user_stop_typing emitted for the same room and user.
C24_TypingAlwaysStops ==
    \A u \in Users : \A r \in Rooms :
        TypingOpen(u, r) ~> TypingClosed(u, r)

\* the messages persisted before the session began
IsSeed(m) == m.cid = 0

\* the number of timeline entries of u that show the persisted message m
Shown(u, m) ==
    Cardinality({i \in 1..Len(messages[u]) : messages[u][i].id = m.id})

\* C25: once paging has ended (hasMoreOlder is false) in a room the user
\* never left, every message of the room that was persisted before the
\* session began, and so is older than the first cursor, is in the timeline
\* exactly once.
C25_BackfillComplete ==
    \A u \in Users :
        (/\ mounted[u] /\ variant = VChat
         /\ currentRoom[u] = InitialRoom /\ switchesLeft = PageSwitches
         /\ ~hasMoreOlder[u] /\ paging[u] = <<>>)
        => \A k \in 1..Len(history) :
              (IsSeed(history[k]) /\ history[k].room = InitialRoom)
                 => Shown(u, history[k]) = 1

\* C26: the timestamps of the timeline entries are non-decreasing from the
\* first entry to the last.
C26_TimelineOldestFirst ==
    \A u \in Users : \A i \in 1..Len(messages[u]) :
        \A j \in (i + 1)..Len(messages[u]) :
            messages[u][i].timestamp <= messages[u][j].timestamp

\* the timeline entries of u shown as sending
SendingEntries(u) ==
    {i \in 1..Len(messages[u]) : messages[u][i].status = "sending"}

\* C27: at most one outbound message of a client is shown as sending and at
\* most one sendMessage call is running; while a call runs loading is true,
\* and when no call and no fetch runs loading is false.
C27_OneSendAtATime ==
    \A u \in Users :
        (mounted[u] /\ variant \in {VChat, VPart1}) =>
            /\ Cardinality(SendingEntries(u)) <= 1
            /\ Cardinality(calls[u]) <= 1
            /\ calls[u] # {} => loading[u]
            /\ (calls[u] = {} /\ fetching[u] = <<>>) => ~loading[u]

\* the step in which the older-page request of u fails for the last time
PageGivesUp(u) ==
    /\ \E k \in ErrKinds : PageFail(u, k)
    /\ Len(paging'[u]) < Len(paging[u])

\* C28: a client has at most one older-page request in flight and issues
\* one only when none is in flight; the request fails for good only after
\* the last retry, and that step leaves the timeline and hasMoreOlder as
\* they were, sets the error, and resets loadingOlder, so that the guard of
\* loadOlderMessages lets the next call through.
C28_PageFailureRecovers ==
    /\ [](\A u \in Users : Len(paging[u]) <= 1)
    /\ [][\A u \in Users :
             /\ IssuesPage(u) => (paging[u] = <<>> /\ ~loadingOlder[u])
             /\ PageGivesUp(u) =>
                  /\ Head(paging[u]).attempt = RetriesFor(variant)
                  /\ messages' = messages
                  /\ hasMoreOlder' = hasMoreOlder
                  /\ error'[u] # NoError
                  /\ ~loadingOlder'[u]
                  /\ ~OlderGuardReturns(loadingOlder'[u],
                                        hasMoreOlder'[u])]_vars

\* the request for a page older than a timeline that is not empty has failed
\* after its retries: the error is shown, loadingOlder is false again and
\* hasMoreOlder is still true
C28_Witness ==
    \E u \in Users :
        /\ pageLog[u].outcome = "failed"
        /\ error[u] # NoError
        /\ ~loadingOlder[u] /\ hasMoreOlder[u] /\ paging[u] = <<>>
        /\ messages[u] # <<>>

\* the attempts of the invocation under way that failed
FailedAttempts == {k \in 1..Len(retry.log) : ~retry.log[k].ok}

\* C29: apiCallWithRetry calls apiCall at most 3 times; when it returns,
\* the last call it made is the only one that succeeded and it returns that
\* call's result; when it throws, it has made 3 calls, all failed, and it
\* throws the error of the third; it makes no call after it has ended.
C29_RetryAtMostThrice ==
    /\ [](/\ Len(retry.log) <= 3
          /\ retry.phase = "returned" =>
                /\ retry.log # <<>>
                /\ retry.log[Len(retry.log)].ok
                /\ FailedAttempts = 1..(Len(retry.log) - 1)
                /\ retry.value = retry.log[Len(retry.log)].v
          /\ retry.phase = "threw" =>
                /\ Len(retry.log) = 3
                /\ FailedAttempts = 1..3
                /\ retry.value = retry.log[3].v
          /\ retry.phase \in {"call", "wait"} =>
                FailedAttempts = 1..Len(retry.log))
    /\ [][(retry.phase \in {"returned", "threw"}
            /\ retry'.phase \in {"returned", "threw"})
              => retry' = retry]_vars

\* three attempts failed, the first and the last with different errors, and
\* the error of the last one was thrown
C29_Witness ==
    /\ retry.phase = "threw"
    /\ Len(retry.log) = 3
    /\ retry.log[1].v # retry.log[3].v
    /\ retry.value = retry.log[3].v

\* TRUE when x is typing in the room u displays: the typing timer of x for
\* that room is pending
TypingFor(x, u) ==
    \E i \in 1..Len(typingTimers[x]) : typingTimers[x][i] = currentRoom[u]

\* C30: the typing set of a receiver holds only other users who are typing
\* in the room the receiver displays: it never holds the receiver, and an
\* entry whose user is not typing in that room does not stay.
C30_TypingSetIsCurrent ==
    /\ [](\A u \in Users : u \notin typingUsers[u])
    /\ \A u \in Users : \A x \in Users :
          (x \in typingUsers[u] /\ ~TypingFor(x, u))
              ~> (x \notin typingUsers[u] \/ TypingFor(x, u))

====
